---- MODULE Spec2Model ----
(***************************************************************************)
(* WorkflowStepper (src/src/components/GridFilter.jsx, lines 639-945):      *)
(* the step-state computation (useMemo `stepStates`), the progress value    *)
(* and the navigation handlers of the gated workflow component.             *)
(*                                                                          *)
(* Indices are 0-based as in the JavaScript source; findIndex yields -1     *)
(* when no step matches.  A missing key of the `states` object is the       *)
(* value Undefined.  The external context is represented by what each       *)
(* step's validate / isLoading predicate does when called with it:          *)
(* return true, return false, throw, or not be a function at all.           *)
(***************************************************************************)
EXTENDS Integers, Sequences, FiniteSets, TLC

VARIABLES
    currentStepId,      \* useState(firstId)
    manuallyCompleted,  \* useState(new Set())
    pendingAdvance,     \* useState(false)
    lastNavAt,          \* lastNavAtRef.current
    now,                \* Date.now()
    validateResult,     \* step id -> what step.validate(context) does
    isLoadingResult,    \* step id -> what step.isLoading(context) does
    stepStates,         \* the memoised status map of the last render
    op,                 \* the operation that ran last: its name, its argument,
                        \* for completeStep whether the id was already completed,
                        \* for resetToStep whether it removed a completed id,
                        \* the navigation stamp it found, and for an operation
                        \* that set the stamp whether a request had been
                        \* dropped since the stamp before
    stepChangeCalls,    \* ids passed to onStepChange by the last operation
    contextUpdateCalls, \* number of onContextUpdate calls of the last operation
    throwing,           \* the host callbacks (props) that throw when called
    escaped,            \* an exception left the last operation uncaught
    droppedSince        \* a click / navigateTo was dropped since lastNavAt was set

vars == <<currentStepId, manuallyCompleted, pendingAdvance, lastNavAt, now,
          validateResult, isLoadingResult, stepStates, op,
          stepChangeCalls, contextUpdateCalls, throwing, escaped, droppedSince>>

----------------------------------------------------------------------------
(* Configuration *)

\* The step list of the test fixture (ids only; the predicates are the context).
steps == <<"step-1", "step-2", "step-3">>

\* An id that names no configured step.
UnknownId == "step-x"

NAV_COOLDOWN_MS == 250

\* Date.now() when the component mounts, the clock granularity and horizon.
StartTime == 1000
TickMs == 125
MaxTicks == 2

Undefined == "undefined"

StepIds == {steps[i] : i \in 1..Len(steps)}
AllIds == StepIds \cup {UnknownId}

Outcomes == {"true", "false", "throws", "absent"}
Returned == {"true", "false"}

----------------------------------------------------------------------------
(* Helpers for user callbacks *)

\* safeTry that answers true when fn throws (fail-open)
safeTryFailOpen(outcome, fallback) ==
    IF outcome = "throws" THEN TRUE ELSE outcome = "true"

\* safeTry(fn, fallback): the value fn returns, or fallback when fn throws.
safeTry(outcome, fallback) ==
    IF outcome = "throws" THEN fallback ELSE outcome = "true"

callValidate(vr, id) ==
    IF vr[id] = "absent" THEN FALSE ELSE safeTry(vr[id], FALSE)

callIsLoading(lr, id) ==
    IF lr[id] = "absent" THEN FALSE ELSE safeTry(lr[id], FALSE)

\* steps.findIndex((s) => s.id === id)
findIndex(id) ==
    IF \E i \in 1..Len(steps) : steps[i] = id
    THEN (CHOOSE i \in 1..Len(steps) :
             /\ steps[i] = id
             /\ \A j \in 1..(i - 1) : steps[j] # id) - 1
    ELSE -1

stepAt(index) == steps[index + 1]

Indices == 0..(Len(steps) - 1)

----------------------------------------------------------------------------
(* Step states computation *)

\* availability that ignores manuallyCompleted
isAvailableValidatorOnly(vr, mc, id) == callValidate(vr, id)

isAvailable(vr, mc, id) == callValidate(vr, id) \/ id \in mc

\* a frontier that every step that is not available overwrites (the last one wins)
lastNonAvailableIndex(vr, mc) ==
    IF \E i \in Indices : ~isAvailable(vr, mc, stepAt(i))
    THEN CHOOSE i \in Indices :
            /\ ~isAvailable(vr, mc, stepAt(i))
            /\ \A j \in Indices : j > i => isAvailable(vr, mc, stepAt(j))
    ELSE -1

\* let firstNonAvailableIndex = -1; set by the first step that is not available
firstNonAvailableIndex(vr, mc) ==
    IF \E i \in Indices : ~isAvailable(vr, mc, stepAt(i))
    THEN CHOOSE i \in Indices :
            /\ ~isAvailable(vr, mc, stepAt(i))
            /\ \A j \in 0..(i - 1) : isAvailable(vr, mc, stepAt(j))
    ELSE -1

\* Mark available steps
markAvailable(vr, mc) ==
    [id \in AllIds |->
        IF id \in StepIds /\ isAvailable(vr, mc, id) THEN "available" ELSE Undefined]

\* Assign next/loading & locked states
assignNextAndLocked(states, vr, lr, mc) ==
    LET first == firstNonAvailableIndex(vr, mc) IN
    IF first = -1 THEN states
    ELSE [id \in AllIds |->
            IF id \notin StepIds THEN states[id]
            ELSE IF states[id] # Undefined THEN states[id]
            ELSE IF findIndex(id) = first
                 THEN (IF callIsLoading(lr, id) THEN "loading" ELSE "next")
            ELSE IF findIndex(id) > first THEN "locked"
            ELSE states[id]]

\* a re-tag that takes every step before current that is not locked
markCompletedNotLocked(states, cur) ==
    LET currentIdx == findIndex(cur) IN
    [id \in AllIds |->
        IF id \in StepIds /\ findIndex(id) < currentIdx
           /\ states[id] \notin {Undefined, "locked"}
        THEN "completed" ELSE states[id]]

\* Mark completed: available steps before current
markCompleted(states, cur) ==
    LET currentIdx == findIndex(cur) IN
    [id \in AllIds |->
        IF id \in StepIds /\ findIndex(id) < currentIdx /\ states[id] = "available"
        THEN "completed" ELSE states[id]]

\* an override that only promotes an `available` current step
overrideCurrentAvailableOnly(states, cur) ==
    LET curState == states[cur] IN
    IF curState = "available"
    THEN [states EXCEPT ![cur] = "active"]
    ELSE IF curState = Undefined
    THEN [states EXCEPT ![cur] = "locked"]
    ELSE states

\* an override that leaves a loading current step `loading`
overrideCurrentKeepsLoading(states, cur) ==
    LET curState == states[cur] IN
    IF curState \notin {Undefined, "locked", "loading"}
    THEN [states EXCEPT ![cur] = "active"]
    ELSE IF curState = Undefined
    THEN [states EXCEPT ![cur] = "locked"]
    ELSE states

\* an override that makes the current step active whatever its status
overrideCurrentAlways(states, cur) ==
    [states EXCEPT ![cur] = "active"]

\* Override current step to active (if not locked)
overrideCurrent(states, cur) ==
    LET curState == states[cur] IN
    IF curState # Undefined /\ curState # "locked"
    THEN [states EXCEPT ![cur] = "active"]
    ELSE IF curState = Undefined
    THEN [states EXCEPT ![cur] = "locked"]
    ELSE states

computeStepStates(vr, lr, mc, cur) ==
    overrideCurrent(
        markCompleted(
            assignNextAndLocked(markAvailable(vr, mc), vr, lr, mc),
            cur),
        cur)

\* a progress that counts the active step among the completed ones as well
progressHalfStepsCountsActive(states, cur) ==
    LET completedCount == Cardinality({id \in AllIds :
                                          states[id] \in {"completed", "active"}})
        activeState == states[cur]
        activeBonus == IF activeState = "active" \/ activeState = "loading" THEN 1 ELSE 0
    IN 2 * completedCount + activeBonus

\* a progress that counts the active step as a whole step
progressHalfStepsFullBonus(states, cur) ==
    LET completedCount == Cardinality({id \in AllIds : states[id] = "completed"})
        activeState == states[cur]
        activeBonus == IF activeState = "active" \/ activeState = "loading" THEN 2 ELSE 0
    IN 2 * completedCount + activeBonus

\* Progress calculation, in half steps: progress = halfSteps / (2 * steps.length) * 100
progressHalfSteps(states, cur) ==
    LET completedCount == Cardinality({id \in AllIds : states[id] = "completed"})
        activeState == states[cur]
        activeBonus == IF activeState = "active" \/ activeState = "loading" THEN 1 ELSE 0
    IN 2 * completedCount + activeBonus

\* the progress value in tenths of a percent, rounded to the nearest tenth
progressTenths(states, cur) ==
    (2000 * progressHalfSteps(states, cur) + 2 * Len(steps)) \div (4 * Len(steps))

\* getStepState(stepId)
getStepState(stepId) ==
    IF stepStates[stepId] # Undefined THEN stepStates[stepId] ELSE "locked"

----------------------------------------------------------------------------
(* Session state after construction *)

\* The predicates of the fixture's steps under the initial context:
\* step-1 validates, step-2 and step-3 do not; only step-2 has isLoading.
fixtureValidate ==
    [id \in StepIds |-> IF id = "step-1" THEN "true" ELSE "false"]

fixtureIsLoading ==
    [id \in StepIds |-> IF id = "step-2" THEN "false" ELSE "absent"]

Init ==
    /\ currentStepId = steps[1]
    /\ manuallyCompleted = {}
    /\ pendingAdvance = FALSE
    /\ lastNavAt = 0
    /\ now = StartTime
    /\ validateResult = fixtureValidate
    /\ isLoadingResult = fixtureIsLoading
    /\ stepStates = computeStepStates(validateResult, isLoadingResult,
                                      manuallyCompleted, currentStepId)
    /\ op = [name |-> "mount", arg |-> Undefined,
             prevNavAt |-> 0, afterDrop |-> FALSE, repeat |-> FALSE, undid |-> FALSE]
    /\ stepChangeCalls = <<>>
    /\ contextUpdateCalls = 0
    /\ throwing = {}
    /\ escaped = FALSE
    /\ droppedSince = FALSE

----------------------------------------------------------------------------
(* Lightweight debounce for rapid navigation clicks *)

\* a cooldown check that lets every request through
canNavigateNowNoCooldown == now - lastNavAt >= 0

canNavigateNow == now - lastNavAt >= NAV_COOLDOWN_MS

\* stampNav(): lastNavAtRef.current = Date.now()
stampNav == lastNavAt' = now

\* The re-render that follows an operation: useMemo recomputes stepStates from
\* the new currentStepId, context and manuallyCompleted.
render ==
    stepStates' = computeStepStates(validateResult', isLoadingResult',
                                    manuallyCompleted', currentStepId')

\* onStepChange?.(id), called directly: an exception it throws leaves the caller
stepChangeEscapes == "onStepChange" \in throwing

\* safeTry(() => onContextUpdate?.(data), null): the exception is caught and logged
contextUpdateEscapes == FALSE

----------------------------------------------------------------------------
(* Handlers *)
(* Every handler runs against the latest render (its closure holds the      *)
(* current currentStepId / stepStates) and is followed by the re-render its *)
(* state updates cause.  The deferred-advance effect is a step of its own:  *)
(* it runs after the render that saw pendingAdvance = true, and operations  *)
(* issued before it has run find pendingAdvance still set.                  *)

\* a click handler that ignores the status of its target
handleStepClickIgnoresLock(stepId) ==
    /\ op' = [name |-> "click", arg |-> stepId,
              prevNavAt |-> lastNavAt,
              afterDrop |-> droppedSince /\ canNavigateNow,
              repeat |-> FALSE, undid |-> FALSE]
    /\ contextUpdateCalls' = 0
    /\ IF ~canNavigateNow
       THEN /\ stepChangeCalls' = <<>>
            /\ escaped' = FALSE
            /\ UNCHANGED <<currentStepId, lastNavAt>>
            /\ droppedSince' = TRUE
       ELSE /\ stampNav
            /\ droppedSince' = FALSE
            /\ currentStepId' = stepId
            /\ stepChangeCalls' = <<stepId>>
            /\ escaped' = stepChangeEscapes
    /\ UNCHANGED <<manuallyCompleted, pendingAdvance, now,
                   validateResult, isLoadingResult, throwing>>
    /\ render

\* a click handler that stamps the navigation time before its guards
handleStepClickStampsFirst(stepId) ==
    LET state == stepStates[stepId] IN
    /\ op' = [name |-> "click", arg |-> stepId,
              prevNavAt |-> lastNavAt,
              afterDrop |-> droppedSince /\ state # "locked" /\ canNavigateNow,
              repeat |-> FALSE, undid |-> FALSE]
    /\ contextUpdateCalls' = 0
    /\ stampNav
    /\ IF state = "locked" \/ ~canNavigateNow
       THEN /\ stepChangeCalls' = <<>>
            /\ escaped' = FALSE
            /\ UNCHANGED currentStepId
            /\ droppedSince' = TRUE
       ELSE /\ droppedSince' = FALSE
            /\ currentStepId' = stepId
            /\ stepChangeCalls' = <<stepId>>
            /\ escaped' = stepChangeEscapes
    /\ UNCHANGED <<manuallyCompleted, pendingAdvance, now,
                   validateResult, isLoadingResult, throwing>>
    /\ render

\* a click handler that forgets onStepChange
handleStepClickSilent(stepId) ==
    LET state == stepStates[stepId] IN
    /\ op' = [name |-> "click", arg |-> stepId,
              prevNavAt |-> lastNavAt,
              afterDrop |-> droppedSince /\ state # "locked" /\ canNavigateNow,
              repeat |-> FALSE, undid |-> FALSE]
    /\ contextUpdateCalls' = 0
    /\ stepChangeCalls' = <<>>
    /\ escaped' = FALSE
    /\ IF state = "locked" \/ ~canNavigateNow
       THEN UNCHANGED <<currentStepId, lastNavAt>>
            /\ droppedSince' = TRUE
       ELSE /\ stampNav
            /\ droppedSince' = FALSE
            /\ currentStepId' = stepId
    /\ UNCHANGED <<manuallyCompleted, pendingAdvance, now,
                   validateResult, isLoadingResult, throwing>>
    /\ render

\* onPress={() => handleStepClick(step.id, state)} of a rendered step button
handleStepClick(stepId) ==
    LET state == stepStates[stepId] IN
    /\ op' = [name |-> "click", arg |-> stepId,
              prevNavAt |-> lastNavAt,
              afterDrop |-> droppedSince /\ state # "locked" /\ canNavigateNow,
              repeat |-> FALSE, undid |-> FALSE]
    /\ contextUpdateCalls' = 0
    /\ IF state = "locked" \/ ~canNavigateNow
       THEN /\ stepChangeCalls' = <<>>
            /\ escaped' = FALSE
            /\ UNCHANGED <<currentStepId, lastNavAt>>
            /\ droppedSince' = TRUE
       ELSE /\ stampNav
            /\ droppedSince' = FALSE
            /\ currentStepId' = stepId
            /\ stepChangeCalls' = <<stepId>>
            /\ escaped' = stepChangeEscapes
    /\ UNCHANGED <<manuallyCompleted, pendingAdvance, now,
                   validateResult, isLoadingResult, throwing>>
    /\ render

\* completeStep that toggles the id instead of adding it
completeStepToggle(data) ==
    LET currentIndex == findIndex(currentStepId) IN
    /\ op' = [name |-> "completeStep", arg |-> currentStepId,
              prevNavAt |-> lastNavAt, afterDrop |-> FALSE,
              repeat |-> currentStepId \in manuallyCompleted, undid |-> FALSE]
    /\ manuallyCompleted' = IF currentStepId \in manuallyCompleted
                            THEN manuallyCompleted \ {currentStepId}
                            ELSE manuallyCompleted \cup {currentStepId}
    /\ contextUpdateCalls' = IF data THEN 1 ELSE 0
    /\ pendingAdvance' = TRUE
    /\ stepChangeCalls' = IF currentIndex = Len(steps) - 1
                          THEN <<currentStepId>> ELSE <<>>
    /\ escaped' = \/ (data /\ contextUpdateEscapes)
                  \/ (currentIndex = Len(steps) - 1 /\ stepChangeEscapes)
    /\ UNCHANGED <<currentStepId, lastNavAt, now, validateResult, isLoadingResult,
                   throwing, droppedSince>>
    /\ render

\* completeStep without the notification for the last step
completeStepSilent(data) ==
    /\ op' = [name |-> "completeStep", arg |-> currentStepId,
              prevNavAt |-> lastNavAt, afterDrop |-> FALSE,
              repeat |-> currentStepId \in manuallyCompleted, undid |-> FALSE]
    /\ manuallyCompleted' = manuallyCompleted \cup {currentStepId}
    /\ contextUpdateCalls' = IF data THEN 1 ELSE 0
    /\ pendingAdvance' = TRUE
    /\ stepChangeCalls' = <<>>
    /\ escaped' = (data /\ contextUpdateEscapes)
    /\ UNCHANGED <<currentStepId, lastNavAt, now, validateResult, isLoadingResult,
                   throwing, droppedSince>>
    /\ render

completeStep(data) ==
    LET currentIndex == findIndex(currentStepId) IN
    /\ op' = [name |-> "completeStep", arg |-> currentStepId,
              prevNavAt |-> lastNavAt, afterDrop |-> FALSE,
              repeat |-> currentStepId \in manuallyCompleted, undid |-> FALSE]
    /\ manuallyCompleted' = manuallyCompleted \cup {currentStepId}
    /\ contextUpdateCalls' = IF data THEN 1 ELSE 0
    /\ pendingAdvance' = TRUE
    /\ stepChangeCalls' = IF currentIndex = Len(steps) - 1
                          THEN <<currentStepId>> ELSE <<>>
    /\ escaped' = \/ (data /\ contextUpdateEscapes)
                  \/ (currentIndex = Len(steps) - 1 /\ stepChangeEscapes)
    /\ UNCHANGED <<currentStepId, lastNavAt, now, validateResult, isLoadingResult,
                   throwing, droppedSince>>
    /\ render

\* navigateToStep without the locked check
navigateToStepUnguarded(stepId) ==
    /\ op' = [name |-> "navigateTo", arg |-> stepId,
              prevNavAt |-> lastNavAt,
              afterDrop |-> droppedSince /\ canNavigateNow,
              repeat |-> FALSE, undid |-> FALSE]
    /\ contextUpdateCalls' = 0
    /\ IF ~canNavigateNow
       THEN /\ stepChangeCalls' = <<>>
            /\ escaped' = FALSE
            /\ UNCHANGED <<currentStepId, lastNavAt>>
            /\ droppedSince' = TRUE
       ELSE /\ stampNav
            /\ droppedSince' = FALSE
            /\ currentStepId' = stepId
            /\ stepChangeCalls' = <<stepId>>
            /\ escaped' = stepChangeEscapes
    /\ UNCHANGED <<manuallyCompleted, pendingAdvance, now,
                   validateResult, isLoadingResult, throwing>>
    /\ render

navigateToStep(stepId) ==
    LET state == stepStates[stepId] IN
    /\ op' = [name |-> "navigateTo", arg |-> stepId,
              prevNavAt |-> lastNavAt,
              afterDrop |-> droppedSince /\ state # "locked" /\ canNavigateNow,
              repeat |-> FALSE, undid |-> FALSE]
    /\ contextUpdateCalls' = 0
    /\ IF state = "locked" \/ ~canNavigateNow
       THEN /\ stepChangeCalls' = <<>>
            /\ escaped' = FALSE
            /\ UNCHANGED <<currentStepId, lastNavAt>>
            /\ droppedSince' = TRUE
       ELSE /\ stampNav
            /\ droppedSince' = FALSE
            /\ currentStepId' = stepId
            /\ stepChangeCalls' = <<stepId>>
            /\ escaped' = stepChangeEscapes
    /\ UNCHANGED <<manuallyCompleted, pendingAdvance, now,
                   validateResult, isLoadingResult, throwing>>
    /\ render

\* resetToStep that goes through the navigation guards (locked, cooldown)
resetToStepGuarded(stepId) ==
    LET stepIndex == findIndex(stepId)
        idsToReset == {stepAt(i) : i \in {j \in Indices : j >= stepIndex}}
        refused == stepIndex < 0 \/ stepStates[stepId] = "locked" \/ ~canNavigateNow
    IN
    /\ op' = [name |-> "resetToStep", arg |-> stepId,
              prevNavAt |-> lastNavAt, afterDrop |-> FALSE, repeat |-> FALSE,
              undid |-> ~refused /\ manuallyCompleted \cap idsToReset # {}]
    /\ contextUpdateCalls' = 0
    /\ IF refused
       THEN /\ stepChangeCalls' = <<>>
            /\ escaped' = FALSE
            /\ UNCHANGED <<manuallyCompleted, currentStepId>>
       ELSE /\ manuallyCompleted' = manuallyCompleted \ idsToReset
            /\ currentStepId' = stepId
            /\ stepChangeCalls' = <<stepId>>
            /\ escaped' = stepChangeEscapes
    /\ UNCHANGED <<pendingAdvance, lastNavAt, now, validateResult, isLoadingResult,
                   throwing, droppedSince>>
    /\ render

\* resetToStep that un-completes the target step only
resetToStepOnlyTarget(stepId) ==
    LET stepIndex == findIndex(stepId)
        idsToReset == {stepId}
    IN
    /\ op' = [name |-> "resetToStep", arg |-> stepId,
              prevNavAt |-> lastNavAt, afterDrop |-> FALSE, repeat |-> FALSE,
              undid |-> stepIndex >= 0 /\ manuallyCompleted \cap idsToReset # {}]
    /\ contextUpdateCalls' = 0
    /\ IF stepIndex < 0
       THEN /\ stepChangeCalls' = <<>>
            /\ escaped' = FALSE
            /\ UNCHANGED <<manuallyCompleted, currentStepId>>
       ELSE /\ manuallyCompleted' = manuallyCompleted \ idsToReset
            /\ currentStepId' = stepId
            /\ stepChangeCalls' = <<stepId>>
            /\ escaped' = stepChangeEscapes
    /\ UNCHANGED <<pendingAdvance, lastNavAt, now, validateResult, isLoadingResult,
                   throwing, droppedSince>>
    /\ render

resetToStep(stepId) ==
    LET stepIndex == findIndex(stepId)
        idsToReset == {stepAt(i) : i \in {j \in Indices : j >= stepIndex}}
    IN
    /\ op' = [name |-> "resetToStep", arg |-> stepId,
              prevNavAt |-> lastNavAt, afterDrop |-> FALSE, repeat |-> FALSE,
              undid |-> stepIndex >= 0 /\ manuallyCompleted \cap idsToReset # {}]
    /\ contextUpdateCalls' = 0
    /\ IF stepIndex < 0
       THEN /\ stepChangeCalls' = <<>>
            /\ escaped' = FALSE
            /\ UNCHANGED <<manuallyCompleted, currentStepId>>
       ELSE /\ manuallyCompleted' = manuallyCompleted \ idsToReset
            /\ currentStepId' = stepId
            /\ stepChangeCalls' = <<stepId>>
            /\ escaped' = stepChangeEscapes
    /\ UNCHANGED <<pendingAdvance, lastNavAt, now, validateResult, isLoadingResult,
                   throwing, droppedSince>>
    /\ render

updateContext ==
    /\ op' = [name |-> "updateContext", arg |-> Undefined,
              prevNavAt |-> lastNavAt, afterDrop |-> FALSE,
              repeat |-> FALSE, undid |-> FALSE]
    /\ contextUpdateCalls' = 1
    /\ stepChangeCalls' = <<>>
    /\ escaped' = contextUpdateEscapes
    /\ UNCHANGED <<currentStepId, manuallyCompleted, pendingAdvance, lastNavAt, now,
                   validateResult, isLoadingResult, throwing,
                   droppedSince>>
    /\ render

\* advance targets read from the statuses of the render before the completion
advanceTargetsStale ==
    LET currentIndex == findIndex(currentStepId)
        stale == computeStepStates(validateResult, isLoadingResult,
                                   manuallyCompleted \ {currentStepId}, currentStepId)
    IN
    {i \in Indices : /\ i > currentIndex
                     /\ stale[stepAt(i)] # Undefined
                     /\ stale[stepAt(i)] # "locked"}

\* Effect to handle deferred navigation after completion
advanceTargets ==
    LET currentIndex == findIndex(currentStepId) IN
    {i \in Indices : /\ i > currentIndex
                     /\ stepStates[stepAt(i)] # Undefined
                     /\ stepStates[stepAt(i)] # "locked"}

\* an effect that advances only when the cooldown has passed
deferredAdvanceRateLimited ==
    /\ pendingAdvance
    /\ op' = [name |-> "advance", arg |-> currentStepId,
              prevNavAt |-> lastNavAt,
              afterDrop |-> droppedSince /\ advanceTargets # {} /\ canNavigateNow,
              repeat |-> FALSE, undid |-> FALSE]
    /\ contextUpdateCalls' = 0
    /\ IF advanceTargets # {} /\ canNavigateNow
       THEN LET next == stepAt(CHOOSE i \in advanceTargets :
                                  \A j \in advanceTargets : i <= j)
            IN /\ stampNav
               /\ droppedSince' = FALSE
               /\ currentStepId' = next
               /\ stepChangeCalls' = <<next>>
               /\ escaped' = stepChangeEscapes
               /\ pendingAdvance' = IF stepChangeEscapes THEN pendingAdvance ELSE FALSE
       ELSE /\ stepChangeCalls' = <<>>
            /\ escaped' = FALSE
            /\ pendingAdvance' = FALSE
            /\ UNCHANGED <<currentStepId, lastNavAt, droppedSince>>
    /\ UNCHANGED <<manuallyCompleted, now, validateResult, isLoadingResult, throwing>>
    /\ render

\* an effect that clears pendingAdvance only when it found a target
deferredAdvanceKeepsPending ==
    /\ pendingAdvance
    /\ op' = [name |-> "advance", arg |-> currentStepId,
              prevNavAt |-> lastNavAt,
              afterDrop |-> droppedSince /\ advanceTargets # {},
              repeat |-> FALSE, undid |-> FALSE]
    /\ contextUpdateCalls' = 0
    /\ IF advanceTargets # {}
       THEN LET next == stepAt(CHOOSE i \in advanceTargets :
                                  \A j \in advanceTargets : i <= j)
            IN /\ stampNav
               /\ droppedSince' = FALSE
               /\ currentStepId' = next
               /\ stepChangeCalls' = <<next>>
               /\ escaped' = stepChangeEscapes
               /\ pendingAdvance' = IF stepChangeEscapes THEN pendingAdvance ELSE FALSE
       ELSE /\ stepChangeCalls' = <<>>
            /\ escaped' = FALSE
            /\ UNCHANGED <<currentStepId, lastNavAt, droppedSince, pendingAdvance>>
    /\ UNCHANGED <<manuallyCompleted, now, validateResult, isLoadingResult, throwing>>
    /\ render

deferredAdvance ==
    /\ pendingAdvance
    /\ op' = [name |-> "advance", arg |-> currentStepId,
              prevNavAt |-> lastNavAt,
              afterDrop |-> droppedSince /\ advanceTargets # {},
              repeat |-> FALSE, undid |-> FALSE]
    /\ contextUpdateCalls' = 0
    /\ IF advanceTargets # {}
       THEN LET next == stepAt(CHOOSE i \in advanceTargets :
                                  \A j \in advanceTargets : i <= j)
            IN /\ stampNav
               /\ droppedSince' = FALSE
               /\ currentStepId' = next
               /\ stepChangeCalls' = <<next>>
               /\ escaped' = stepChangeEscapes
               \* setPendingAdvance(false) comes after onStepChange?.(next.id)
               /\ pendingAdvance' = IF stepChangeEscapes THEN pendingAdvance ELSE FALSE
       ELSE /\ stepChangeCalls' = <<>>
            /\ escaped' = FALSE
            /\ pendingAdvance' = FALSE
            /\ UNCHANGED <<currentStepId, lastNavAt, droppedSince>>
    /\ UNCHANGED <<manuallyCompleted, now, validateResult, isLoadingResult, throwing>>
    /\ render

----------------------------------------------------------------------------
(* Environment: the context provider and the clock *)

\* useCITEDValidator() supplies a new context: one of the predicates the steps
\* define now returns the other answer
contextChange(id, validates, result) ==
    /\ op' = [name |-> "contextChange", arg |-> Undefined,
              prevNavAt |-> lastNavAt, afterDrop |-> FALSE,
              repeat |-> FALSE, undid |-> FALSE]
    /\ IF validates
       THEN /\ validateResult[id] \notin {"absent", result}
            /\ validateResult' = [validateResult EXCEPT ![id] = result]
            /\ UNCHANGED isLoadingResult
       ELSE /\ isLoadingResult[id] \notin {"absent", result}
            /\ isLoadingResult' = [isLoadingResult EXCEPT ![id] = result]
            /\ UNCHANGED validateResult
    /\ stepChangeCalls' = <<>>
    /\ contextUpdateCalls' = 0
    /\ escaped' = FALSE
    /\ UNCHANGED <<currentStepId, manuallyCompleted, pendingAdvance, lastNavAt, now,
                   throwing, droppedSince>>
    /\ render

\* Date.now() moves on
tick ==
    /\ now < StartTime + MaxTicks * TickMs
    /\ now' = now + TickMs
    /\ op' = [name |-> "tick", arg |-> Undefined,
              prevNavAt |-> lastNavAt, afterDrop |-> FALSE,
              repeat |-> FALSE, undid |-> FALSE]
    /\ stepChangeCalls' = <<>>
    /\ contextUpdateCalls' = 0
    /\ escaped' = FALSE
    /\ UNCHANGED <<currentStepId, manuallyCompleted, pendingAdvance, lastNavAt,
                   validateResult, isLoadingResult, stepStates, throwing,
                   droppedSince>>

----------------------------------------------------------------------------
(* The component in use *)

Next ==
    \/ \E stepId \in StepIds : handleStepClick(stepId)
    \/ \E data \in BOOLEAN : completeStep(data)
    \/ \E stepId \in AllIds : navigateToStep(stepId)
    \/ \E stepId \in AllIds : resetToStep(stepId)
    \/ updateContext
    \/ deferredAdvance
    \/ \E id \in StepIds, validates \in BOOLEAN, result \in Returned :
          contextChange(id, validates, result)
    \/ tick

Spec == Init /\ [][Next]_vars

\* The effect is scheduled by React after every commit whose dependencies
\* changed, so a pending advance is always eventually run.  The operations are
\* those of Next at one reading of the clock: Date.now() takes no part in the
\* scheduling of the effect.
LiveNext ==
    \/ \E stepId \in StepIds : handleStepClick(stepId)
    \/ \E data \in BOOLEAN : completeStep(data)
    \/ \E stepId \in AllIds : navigateToStep(stepId)
    \/ \E stepId \in AllIds : resetToStep(stepId)
    \/ updateContext
    \/ deferredAdvance
    \/ \E id \in StepIds, validates \in BOOLEAN, result \in Returned :
          contextChange(id, validates, result)

SpecLive == Init /\ [][LiveNext]_vars /\ WF_vars(deferredAdvance)

----------------------------------------------------------------------------
(* The component mounted under any context: every outcome of every predicate *)

MountInit ==
    /\ currentStepId = steps[1]
    /\ manuallyCompleted = {}
    /\ pendingAdvance = FALSE
    /\ lastNavAt = 0
    /\ now = StartTime
    /\ validateResult \in [StepIds -> Outcomes]
    /\ isLoadingResult \in [StepIds -> Outcomes]
    /\ stepStates = computeStepStates(validateResult, isLoadingResult,
                                      manuallyCompleted, currentStepId)
    /\ op = [name |-> "mount", arg |-> Undefined,
             prevNavAt |-> 0, afterDrop |-> FALSE, repeat |-> FALSE, undid |-> FALSE]
    /\ stepChangeCalls = <<>>
    /\ contextUpdateCalls = 0
    /\ throwing = {}
    /\ escaped = FALSE
    /\ droppedSince = FALSE

MountNext ==
    \/ \E stepId \in StepIds : handleStepClick(stepId)
    \/ tick

SpecMount == MountInit /\ [][MountNext]_vars

----------------------------------------------------------------------------
(* The component under one context that never changes, whatever its          *)
(* validators answer, driven by clicks, navigateTo on configured ids,        *)
(* completeStep and the deferred advance; resetToStep is not called.         *)

FixedInit ==
    /\ currentStepId = steps[1]
    /\ manuallyCompleted = {}
    /\ pendingAdvance = FALSE
    /\ lastNavAt = 0
    /\ now = StartTime
    /\ validateResult \in [StepIds -> Outcomes]
    /\ isLoadingResult \in {fixtureIsLoading,
                            [fixtureIsLoading EXCEPT !["step-2"] = "true"]}
    /\ stepStates = computeStepStates(validateResult, isLoadingResult,
                                      manuallyCompleted, currentStepId)
    /\ op = [name |-> "mount", arg |-> Undefined, prevNavAt |-> 0, afterDrop |-> FALSE,
             repeat |-> FALSE, undid |-> FALSE]
    /\ stepChangeCalls = <<>>
    /\ contextUpdateCalls = 0
    /\ throwing = {}
    /\ escaped = FALSE
    /\ droppedSince = FALSE

FixedNext ==
    \/ \E stepId \in StepIds : handleStepClick(stepId)
    \/ \E stepId \in StepIds : navigateToStep(stepId)
    \/ \E data \in BOOLEAN : completeStep(data)
    \/ deferredAdvance
    \/ tick

SpecFixed == FixedInit /\ [][FixedNext]_vars

----------------------------------------------------------------------------
(* The component with host callbacks that throw.  An exception thrown inside *)
(* the effect reaches React, which unmounts the component: the session ends. *)
(* An exception thrown inside an event handler is reported and the session   *)
(* goes on with the state updates the handler had already queued.            *)

Callbacks == {"onStepChange", "onContextUpdate"}

InitFaults ==
    /\ currentStepId = steps[1]
    /\ manuallyCompleted = {}
    /\ pendingAdvance = FALSE
    /\ lastNavAt = 0
    /\ now = StartTime
    /\ validateResult = fixtureValidate
    /\ isLoadingResult = fixtureIsLoading
    /\ stepStates = computeStepStates(validateResult, isLoadingResult,
                                      manuallyCompleted, currentStepId)
    /\ op = [name |-> "mount", arg |-> Undefined,
             prevNavAt |-> 0, afterDrop |-> FALSE, repeat |-> FALSE, undid |-> FALSE]
    /\ stepChangeCalls = <<>>
    /\ contextUpdateCalls = 0
    /\ throwing = Callbacks
    /\ escaped = FALSE
    /\ droppedSince = FALSE

unmounted == escaped /\ op.name = "advance"

NextFaults == ~unmounted /\ Next

SpecFaults == InitFaults /\ [][NextFaults]_vars

----------------------------------------------------------------------------
(* The step-state computation on its own: useMemo over every combination of  *)
(* its dependencies [steps, currentStepId, context, manuallyCompleted], with *)
(* predicates that return, throw or are absent.                              *)

EngineInit ==
    /\ currentStepId \in AllIds
    /\ manuallyCompleted \in SUBSET AllIds
    /\ validateResult \in [StepIds -> Outcomes]
    /\ isLoadingResult \in [StepIds -> Outcomes]
    /\ stepStates = [id \in AllIds |-> Undefined]
    /\ pendingAdvance = FALSE
    /\ lastNavAt = 0
    /\ now = StartTime
    /\ op = [name |-> "inputs", arg |-> Undefined,
             prevNavAt |-> 0, afterDrop |-> FALSE, repeat |-> FALSE, undid |-> FALSE]
    /\ stepChangeCalls = <<>>
    /\ contextUpdateCalls = 0
    /\ throwing = {}
    /\ escaped = FALSE
    /\ droppedSince = FALSE

\* the useMemo callback runs on its dependencies
evaluateStepStates ==
    /\ op.name = "inputs"
    /\ op' = [name |-> "compute", arg |-> Undefined,
              prevNavAt |-> lastNavAt, afterDrop |-> FALSE,
              repeat |-> FALSE, undid |-> FALSE]
    /\ UNCHANGED <<currentStepId, manuallyCompleted, validateResult, isLoadingResult,
                   pendingAdvance, lastNavAt, now, stepChangeCalls, contextUpdateCalls,
                   throwing, escaped, droppedSince>>
    /\ render

EngineNext == evaluateStepStates

SpecEngine == EngineInit /\ [][EngineNext]_vars

----------------------------------------------------------------------------
(* Properties *)

\* the status map has been computed (always so once the component has rendered)
computed == op.name # "inputs"

activeIds == {id \in AllIds : stepStates[id] = "active"}

\* C1 (P1, single active): the status map has at most one `active` entry, an
\* active entry is always the current step's, and a current step that is not
\* `locked` is `active`.  Checked under SpecEngine.
C1_SingleActive ==
    computed =>
    /\ Cardinality(activeIds) <= 1
    /\ \A id \in activeIds : id = currentStepId
    /\ stepStates[currentStepId] # "locked" => stepStates[currentStepId] = "active"

\* the current step is past the frontier's predecessor and is the one active step
C1_Witness ==
    /\ currentStepId = "step-2"
    /\ validateResult["step-2"] = "false"
    /\ stepStates["step-1"] = "completed"
    /\ stepStates["step-2"] = "active"
    /\ stepStates["step-3"] = "locked"

\* C2 (P2, frontier monotonicity): if the step at index i is `locked`, every
\* step at an index > i is `locked` too.  The code leaves an available step
\* after a locked one `available`.
C2_FrontierMonotone ==
    computed =>
    \A i \in Indices : \A j \in Indices :
        (i < j /\ stepStates[stepAt(i)] = "locked") => stepStates[stepAt(j)] = "locked"

\* C3 (linear gating): a click / navigateTo that was accepted made current a
\* step all of whose predecessors are available (validator true or manually
\* completed).
C3_LinearGating ==
    (/\ op.name \in {"click", "navigateTo"}
     /\ stepChangeCalls # <<>>
     /\ currentStepId \in StepIds)
    => \A i \in Indices :
          i < findIndex(currentStepId)
          => (callValidate(validateResult, stepAt(i)) \/ stepAt(i) \in manuallyCompleted)

\* C4 (P3, manual override): a configured step whose id is in manuallyCompleted
\* has status available, completed or active, whatever its validator does.
C4_ManualOverride ==
    computed =>
    \A id \in StepIds :
        id \in manuallyCompleted => stepStates[id] \in {"available", "completed", "active"}

\* manually completed steps whose validators throw, are absent and return false
C4_Witness ==
    /\ manuallyCompleted = StepIds
    /\ validateResult["step-1"] = "throws"
    /\ validateResult["step-2"] = "absent"
    /\ validateResult["step-3"] = "false"
    /\ currentStepId = "step-2"
    /\ stepStates["step-1"] = "completed"
    /\ stepStates["step-2"] = "active"
    /\ stepStates["step-3"] = "available"

\* C5 (P4, idempotent completion): completeStep adds exactly the current id to
\* manuallyCompleted, so a call made while that id is already in the set
\* leaves the set as it is.
C5_IdempotentCompletion ==
    [][op'.name = "completeStep"
       => /\ manuallyCompleted' = manuallyCompleted \cup {currentStepId}
          /\ (currentStepId \in manuallyCompleted
                => manuallyCompleted' = manuallyCompleted)]_vars

\* completeStep has just run on an id that an earlier completeStep had added
C5_Witness ==
    /\ op.name = "completeStep"
    /\ op.repeat
    /\ op.arg = currentStepId
    /\ currentStepId \in manuallyCompleted

\* C6 (P5, debounce): an accepted click stamps the navigation time and notifies
\* onStepChange once; a click made less than NAV_COOLDOWN_MS after the last
\* stamp changes neither currentStepId nor the stamp and notifies nobody.
C6_Debounce ==
    [][op'.name = "click"
       => /\ stepChangeCalls' # <<>>
                => (lastNavAt' = now /\ stepChangeCalls' = <<op'.arg>>)
          /\ now - lastNavAt < NAV_COOLDOWN_MS
                => /\ currentStepId' = currentStepId
                   /\ lastNavAt' = lastNavAt
                   /\ stepChangeCalls' = <<>>]_vars

\* a click on a step that is not locked was dropped inside the cooldown window
\* of an earlier accepted navigation
C6_Witness ==
    /\ op.name = "click"
    /\ stepStates[op.arg] # "locked"
    /\ stepChangeCalls = <<>>
    /\ lastNavAt >= StartTime
    /\ now > lastNavAt
    /\ now - lastNavAt < NAV_COOLDOWN_MS

falseForThrows(results) ==
    [id \in StepIds |-> IF results[id] = "throws" THEN "false" ELSE results[id]]

\* C7 (P6, fail-closed predicates): predicates that throw give the status map
\* and the progress that predicates returning false give; a step whose
\* validator throws is not available unless manually completed, and a step
\* whose isLoading throws is never `loading`.
C7_FailClosed ==
    computed =>
    /\ \A id \in StepIds :
          /\ validateResult[id] = "throws"
                => stepStates = computeStepStates(
                                    [validateResult EXCEPT ![id] = "false"],
                                    isLoadingResult, manuallyCompleted, currentStepId)
          /\ isLoadingResult[id] = "throws"
                => stepStates = computeStepStates(
                                    validateResult,
                                    [isLoadingResult EXCEPT ![id] = "false"],
                                    manuallyCompleted, currentStepId)
          /\ (validateResult[id] = "throws" /\ id \notin manuallyCompleted)
                => stepStates[id] \notin {"available", "completed"}
          /\ (validateResult[id] = "throws" /\ id \notin manuallyCompleted
                 /\ id # currentStepId)
                => stepStates[id] \in {"next", "loading", "locked"}
          /\ isLoadingResult[id] = "throws" => stepStates[id] # "loading"
    /\ LET states == computeStepStates(falseForThrows(validateResult),
                                       falseForThrows(isLoadingResult),
                                       manuallyCompleted, currentStepId)
       IN /\ stepStates = states
          /\ progressHalfSteps(stepStates, currentStepId)
               = progressHalfSteps(states, currentStepId)

\* the frontier step's validate and isLoading both throw
C7_Witness ==
    /\ validateResult["step-1"] = "true"
    /\ validateResult["step-2"] = "throws"
    /\ isLoadingResult["step-2"] = "throws"
    /\ manuallyCompleted = {}
    /\ currentStepId = "step-1"
    /\ stepStates["step-2"] = "next"
    /\ stepStates["step-3"] = "locked"

\* C8 (locked target): a click on / navigateTo a step whose status is `locked`
\* changes nothing and fires no onStepChange.
C8_LockedIsNoOp ==
    [][(op'.name \in {"click", "navigateTo"} /\ stepStates[op'.arg] = "locked")
       => /\ UNCHANGED <<currentStepId, manuallyCompleted, pendingAdvance,
                         lastNavAt, stepStates>>
          /\ stepChangeCalls' = <<>>]_vars

\* a navigation to a locked step was refused although the cooldown had passed
C8_Witness ==
    /\ op.name \in {"click", "navigateTo"}
    /\ op.arg \in StepIds
    /\ stepStates[op.arg] = "locked"
    /\ stepChangeCalls = <<>>
    /\ now - lastNavAt >= NAV_COOLDOWN_MS

\* C9 (invalid target): navigateTo with an id of no configured step changes
\* neither currentStepId, the navigation stamp nor manuallyCompleted and fires
\* no onStepChange.  The code only refuses the status `locked`.
C9_UnknownTargetRejected ==
    [][(op'.name = "navigateTo" /\ op'.arg \notin StepIds)
       => /\ UNCHANGED <<currentStepId, lastNavAt, manuallyCompleted>>
          /\ stepChangeCalls' = <<>>]_vars

\* C10 (session invariant): currentStepId is the id of a configured step.
C10_CurrentIsConfigured == currentStepId \in StepIds

\* C11 (session invariant): manuallyCompleted holds only ids of configured
\* steps.  completeStep adds currentStepId whatever it is, and navigateToStep
\* can have made an unknown id current (C9).
C11_CompletedAreConfigured == manuallyCompleted \subseteq StepIds

Statuses == {"locked", "next", "loading", "available", "active", "completed"}

\* C12 (status map shape): the status map has one entry per configured step,
\* each one of the six statuses, and no entry under any other key.  The code
\* adds the entry `locked` under a currentStepId that names no step.
C12_OneEntryPerStep ==
    computed =>
    /\ \A id \in StepIds : stepStates[id] \in Statuses
    /\ \A id \in AllIds \ StepIds : stepStates[id] = Undefined

\* C13 (callback fault isolation): no exception of a host callback leaves a
\* controller operation, and the deferred advance clears pendingAdvance even
\* when the callback throws.  Only onContextUpdate is called through safeTry.
C13_CallbackFaultsContained ==
    /\ ~escaped
    /\ op.name = "advance" => ~pendingAdvance

\* the ids of the steps at index >= k
idsFrom(k) == {stepAt(i) : i \in {j \in Indices : j >= k}}

\* the steps before index k are all available
availableBefore(k) ==
    \A i \in Indices :
        i < k => (callValidate(validateResult, stepAt(i)) \/ stepAt(i) \in manuallyCompleted)

\* the indices after k whose status in `states` is defined and not locked
openAfter(states, k) ==
    {i \in Indices : i > k /\ states[stepAt(i)] \notin {Undefined, "locked"}}

lowest(S) == CHOOSE i \in S : \A j \in S : i <= j

\* C14 (advance on fresh statuses): the deferred advance that follows a
\* completeStep on a step that is not the last one picks, in the status map
\* computed with the completed id in manuallyCompleted, the first later step
\* that is not locked, makes it current and notifies onStepChange once with
\* it; when the steps before the completed one are all available the target
\* is the very next step, whatever its validator says.
C14_AdvanceOnFreshStatuses ==
    [][(/\ op.name = "completeStep"
        /\ op'.name = "advance"
        /\ currentStepId \in StepIds
        /\ findIndex(currentStepId) < Len(steps) - 1)
       => LET k == findIndex(currentStepId)
              fresh == computeStepStates(validateResult, isLoadingResult,
                                         manuallyCompleted \cup {currentStepId},
                                         currentStepId)
              targets == openAfter(fresh, k)
          IN /\ currentStepId \in manuallyCompleted
             /\ stepChangeCalls = <<>>
             /\ targets # {}
                  => /\ currentStepId' = stepAt(lowest(targets))
                     /\ stepChangeCalls' = <<currentStepId'>>
             /\ targets = {}
                  => /\ currentStepId' = currentStepId
                     /\ stepChangeCalls' = <<>>
             /\ availableBefore(k) => currentStepId' = stepAt(k + 1)
             /\ ~pendingAdvance']_vars

\* the advance moved from the completed step-2 to step-3, whose validator is
\* false and which was locked until step-2 was completed
C14_Witness ==
    /\ op.name = "advance"
    /\ op.arg = "step-2"
    /\ currentStepId = "step-3"
    /\ stepChangeCalls = <<"step-3">>
    /\ validateResult["step-2"] = "false"
    /\ validateResult["step-3"] = "false"
    /\ manuallyCompleted = {"step-2"}
    /\ validateResult["step-1"] = "true"

\* C15 (resetToStep): for a configured step at index k, resetToStep takes the
\* ids of the steps at index >= k out of manuallyCompleted and nothing else,
\* makes the step current and notifies onStepChange once with it, also when
\* the step is locked or the cooldown is running; with an unknown id it
\* changes nothing.
C15_ResetToStep ==
    [][op'.name = "resetToStep"
       => IF op'.arg \in StepIds
          THEN /\ manuallyCompleted' = manuallyCompleted \ idsFrom(findIndex(op'.arg))
               /\ currentStepId' = op'.arg
               /\ stepChangeCalls' = <<op'.arg>>
               /\ UNCHANGED <<pendingAdvance, lastNavAt>>
          ELSE /\ UNCHANGED <<currentStepId, manuallyCompleted, pendingAdvance,
                              lastNavAt, stepStates>>
               /\ stepChangeCalls' = <<>>]_vars

\* a reset to a locked step inside the cooldown window that removed an id and
\* kept an earlier one
C15_Witness ==
    /\ op.name = "resetToStep"
    /\ op.arg = "step-3"
    /\ op.undid
    /\ currentStepId = "step-3"
    /\ stepStates["step-3"] = "locked"
    /\ stepChangeCalls = <<"step-3">>
    /\ manuallyCompleted = {"step-1"}
    /\ lastNavAt >= StartTime
    /\ now - lastNavAt < NAV_COOLDOWN_MS

\* the status map of the freshly mounted fixture
initialStepStates ==
    [id \in AllIds |-> CASE id = "step-1" -> "active"
                         [] id = "step-2" -> "next"
                         [] id = "step-3" -> "locked"
                         [] OTHER -> Undefined]

\* C16 (reset round trip): resetToStep(first step id) makes the first step
\* current and empties manuallyCompleted of every step id (of everything when
\* only completeStep on configured steps filled it), so the status map and
\* the progress are those of a fresh session under the same context: under
\* the initial context, those of the initial state.
C16_ResetRoundTrip ==
    [][(op'.name = "resetToStep" /\ op'.arg = steps[1])
       => /\ currentStepId' = steps[1]
          /\ manuallyCompleted' \cap StepIds = {}
          /\ manuallyCompleted \subseteq StepIds => manuallyCompleted' = {}
          /\ stepStates' = computeStepStates(validateResult, isLoadingResult,
                                             {}, steps[1])
          /\ (validateResult = fixtureValidate /\ isLoadingResult = fixtureIsLoading)
                => /\ stepStates' = initialStepStates
                   /\ progressHalfSteps(stepStates', currentStepId') = 1]_vars

\* a reset to the first step that undid completions, under the initial context
C16_Witness ==
    /\ op.name = "resetToStep"
    /\ op.arg = steps[1]
    /\ op.undid
    /\ ~pendingAdvance
    /\ lastNavAt >= StartTime
    /\ validateResult = fixtureValidate
    /\ isLoadingResult = fixtureIsLoading
    /\ manuallyCompleted = {}
    /\ currentStepId = steps[1]
    /\ stepStates = initialStepStates

lastStepId == steps[Len(steps)]

\* C17 (completing the final step): completeStep on the last step notifies
\* onStepChange with that step within the call, adds it to manuallyCompleted
\* and requests the advance; the deferred advance that follows finds no
\* target: currentStepId stays, nothing is notified, pendingAdvance is cleared.
C17_CompleteFinalStep ==
    [][/\ (op'.name = "completeStep" /\ currentStepId = lastStepId)
          => /\ stepChangeCalls' = <<lastStepId>>
             /\ manuallyCompleted' = manuallyCompleted \cup {lastStepId}
             /\ currentStepId' = lastStepId
             /\ pendingAdvance'
       /\ (op'.name = "advance" /\ currentStepId = lastStepId)
          => /\ currentStepId' = lastStepId
             /\ stepChangeCalls' = <<>>
             /\ ~pendingAdvance'
             /\ UNCHANGED <<manuallyCompleted, lastNavAt>>]_vars

\* the deferred advance has run after the last step was completed
C17_Witness ==
    /\ op.name = "advance"
    /\ op.arg = lastStepId
    /\ currentStepId = lastStepId
    /\ lastStepId \in manuallyCompleted
    /\ stepChangeCalls = <<>>
    /\ ~pendingAdvance

\* C18 (notification on change): whenever currentStepId changes, the operation
\* that changed it calls onStepChange exactly once, with the new id.
C18_ChangeIsNotified ==
    [][currentStepId' # currentStepId => stepChangeCalls' = <<currentStepId'>>]_vars

\* the deferred advance moved the session from step-1 to step-2 and said so
C18_Witness ==
    /\ op.name = "advance"
    /\ op.arg = "step-1"
    /\ currentStepId = "step-2"
    /\ stepChangeCalls = <<"step-2">>
    /\ lastNavAt = now


\* C19 (initial state): right after mounting, currentStepId is the first
\* step's id, manuallyCompleted is empty and pendingAdvance is false; the first
\* step is `active` whatever its validator does, no step is `completed` and
\* the progress is 0.5 / steps.length * 100 (16.7 for three steps); with step-1
\* valid, step-2 invalid and not loading and step-3 invalid the map is
\* active, next, locked.
C19_InitialState ==
    op.name = "mount" =>
    /\ currentStepId = steps[1]
    /\ manuallyCompleted = {}
    /\ ~pendingAdvance
    /\ stepStates[steps[1]] = "active"
    /\ \A id \in AllIds : stepStates[id] # "completed"
    /\ progressHalfSteps(stepStates, currentStepId) = 1
    /\ progressTenths(stepStates, currentStepId) = (1000 + Len(steps)) \div (2 * Len(steps))
    /\ progressTenths(stepStates, currentStepId) = 167
    /\ (/\ callValidate(validateResult, "step-1")
        /\ ~callValidate(validateResult, "step-2")
        /\ ~callIsLoading(isLoadingResult, "step-2")
        /\ ~callValidate(validateResult, "step-3"))
          => stepStates = initialStepStates

\* the component has mounted on a first step whose validator throws
C19_Witness ==
    /\ op.name = "mount"
    /\ validateResult["step-1"] = "throws"
    /\ validateResult["step-2"] = "true"
    /\ stepStates["step-1"] = "active"
    /\ stepStates["step-2"] = "available"
    /\ stepStates["step-3"] = "locked"

\* C20 (liveness of the deferred advance): whenever pendingAdvance is true the
\* effect eventually runs and pendingAdvance is false again, with or without
\* an advance target.  Checked under SpecLive.
C20_PendingAdvanceIsCleared == pendingAdvance ~> ~pendingAdvance

\* the effect ran without finding a target and cleared the flag
C20_Witness ==
    /\ op.name = "advance"
    /\ op.arg = currentStepId
    /\ op.arg # lastStepId
    /\ stepChangeCalls = <<>>
    /\ ~pendingAdvance

\* C21 (completed re-tag, regression visibility): a configured step is
\* `completed` exactly when its index is below the current step's and it is
\* available (validator true or manually completed); a step before the current
\* one that is not available is `next`, `loading` or `locked`.
C21_CompletedIffAvailableBeforeCurrent ==
    computed =>
    \A id \in StepIds :
        LET before == findIndex(id) < findIndex(currentStepId)
            open == callValidate(validateResult, id) \/ id \in manuallyCompleted
        IN /\ stepStates[id] = "completed" <=> (before /\ open)
           /\ (before /\ ~open) => stepStates[id] \in {"next", "loading", "locked"}

\* the session is on step-3 behind a completed step-2, and step-1, whose
\* validator is false, shows as the frontier
C21_Witness ==
    /\ computed
    /\ currentStepId = "step-3"
    /\ validateResult["step-1"] = "false"
    /\ validateResult["step-2"] = "true"
    /\ manuallyCompleted = {}
    /\ stepStates["step-1"] \in {"next", "loading"}
    /\ stepStates["step-2"] = "completed"

\* the step at index i passes its gate: validator true or manually completed
gateOpen(i) ==
    callValidate(validateResult, stepAt(i)) \/ stepAt(i) \in manuallyCompleted

\* C22 (frontier status): the first step in configured order that is not
\* available, when it is not the current step, is `loading` if its isLoading
\* predicate is true and `next` otherwise; every step before it is available
\* (shown available, completed or active); at most one step of the map is
\* `next` or `loading`.
C22_FrontierStatus ==
    computed =>
    /\ \A i \in Indices :
          (~gateOpen(i) /\ \A j \in 0..(i - 1) : gateOpen(j))
          => /\ stepAt(i) # currentStepId
                  => stepStates[stepAt(i)] =
                        (IF callIsLoading(isLoadingResult, stepAt(i))
                         THEN "loading" ELSE "next")
             /\ \A j \in 0..(i - 1) :
                    stepStates[stepAt(j)] \in {"available", "completed", "active"}
    /\ Cardinality({id \in AllIds : stepStates[id] \in {"next", "loading"}}) <= 1

\* step-2 is the frontier and is loading; a second step that is not available
\* lies behind it
C22_Witness ==
    /\ computed
    /\ currentStepId = "step-1"
    /\ validateResult["step-1"] = "true"
    /\ validateResult["step-2"] = "false"
    /\ validateResult["step-3"] = "false"
    /\ isLoadingResult["step-2"] = "true"
    /\ isLoadingResult["step-3"] = "true"
    /\ manuallyCompleted = {}
    /\ stepStates["step-2"] = "loading"
    /\ stepStates["step-3"] = "locked"

\* C23 as stated (no active step behind a failing gate): a configured step
\* whose validator does not return true and whose id is not in
\* manuallyCompleted is never `active`, the current step included.  The
\* override turns a current step that is `next` or `loading` into `active`.
C23_NeverActiveWhileGateFails ==
    computed =>
    \A i \in Indices : ~gateOpen(i) => stepStates[stepAt(i)] # "active"

\* C23 (amended): a configured step that is not available is `active` exactly
\* when it is the current step and every step before it is available (it is
\* the frontier); a step that is not available and lies behind another such
\* step is `locked`, also when it is the current step.
C23_ActiveOnlyAtFrontier ==
    computed =>
    \A i \in Indices :
        ~gateOpen(i)
        => /\ stepStates[stepAt(i)] = "active"
                <=> (stepAt(i) = currentStepId /\ \A j \in 0..(i - 1) : gateOpen(j))
           /\ (\E j \in 0..(i - 1) : ~gateOpen(j)) => stepStates[stepAt(i)] = "locked"

\* the current step lies behind the frontier and fails its own gate: it is
\* locked and no step is active
C23_Witness ==
    /\ computed
    /\ currentStepId = "step-2"
    /\ ~gateOpen(0)
    /\ ~gateOpen(1)
    /\ stepStates["step-1"] \in {"next", "loading"}
    /\ stepStates["step-2"] = "locked"
    /\ activeIds = {}

completedNow == Cardinality({id \in AllIds : stepStates[id] = "completed"})

\* C26 (status of the current step): the current step's status is `active` or
\* `locked`, never next, loading, available or completed; so the progress
\* never takes its bonus from a `loading` current step, and the bonus of half
\* a step is there exactly when the current step is `active`.
C26_CurrentIsActiveOrLocked ==
    computed =>
    /\ stepStates[currentStepId] \in {"active", "locked"}
    /\ progressHalfSteps(stepStates, currentStepId)
         = 2 * completedNow + (IF stepStates[currentStepId] = "active" THEN 1 ELSE 0)

\* the current step is the frontier and its isLoading predicate is true: it is
\* active, not loading, and counts half a step
C26_Witness ==
    /\ computed
    /\ currentStepId = "step-2"
    /\ gateOpen(0)
    /\ ~gateOpen(1)
    /\ callIsLoading(isLoadingResult, "step-2")
    /\ stepStates["step-1"] = "completed"
    /\ stepStates["step-2"] = "active"
    /\ progressHalfSteps(stepStates, currentStepId) = 3

\* C27 (progress stays below 100): in every reachable state
\* 2 * completedCount + (1 if the active bonus applies) <= 2 * steps.length - 1,
\* so 0 <= progress < 100, also when every step, the last one included, has
\* been completed.
C27_ProgressBelowHundred ==
    /\ progressHalfSteps(stepStates, currentStepId) >= 0
    /\ progressHalfSteps(stepStates, currentStepId) <= 2 * Len(steps) - 1
    /\ progressTenths(stepStates, currentStepId) >= 0
    /\ progressTenths(stepStates, currentStepId) < 1000

\* every step has been completed, the last one too, and the advance has run
C27_Witness ==
    /\ op.name = "advance"
    /\ currentStepId = lastStepId
    /\ manuallyCompleted = StepIds
    /\ ~pendingAdvance
    /\ stepStates["step-1"] = "completed"
    /\ stepStates["step-2"] = "completed"
    /\ stepStates["step-3"] = "active"
    /\ progressHalfSteps(stepStates, currentStepId) = 2 * Len(steps) - 1

\* the last operation was a click / navigateTo that was dropped
droppedRequest == op.name \in {"click", "navigateTo"} /\ stepChangeCalls = <<>>

\* C24 (cooldown counts from the last accepted navigation): a dropped click /
\* navigateTo leaves the navigation stamp and the whole session as they were
\* (nothing is kept to replay), the stamp is set only by an operation that
\* navigated, and a click on a step that is not locked made at least
\* NAV_COOLDOWN_MS after the stamp is accepted, whatever was dropped before.
C24_CooldownFromLastAccepted ==
    [][/\ droppedRequest'
          => UNCHANGED <<currentStepId, manuallyCompleted, pendingAdvance,
                         lastNavAt, stepStates>>
       /\ lastNavAt' # lastNavAt
          => /\ op'.name \in {"click", "navigateTo", "advance"}
             /\ stepChangeCalls' = <<currentStepId'>>
             /\ lastNavAt' = now
       /\ (/\ op'.name = "click"
           /\ stepStates[op'.arg] # "locked"
           /\ now - lastNavAt >= NAV_COOLDOWN_MS)
          => /\ currentStepId' = op'.arg
             /\ stepChangeCalls' = <<op'.arg>>
             /\ lastNavAt' = now]_vars

\* a click was accepted exactly one cooldown window after a navigation of this
\* session, and a request had been dropped in between
C24_Witness ==
    /\ op.name = "click"
    /\ op.prevNavAt >= StartTime
    /\ op.afterDrop
    /\ now - op.prevNavAt = NAV_COOLDOWN_MS
    /\ stepChangeCalls = <<op.arg>>
    /\ currentStepId = op.arg
    /\ lastNavAt = now
    /\ ~droppedSince

\* C25 (the deferred advance and the rate limit): the deferred advance moves
\* to its target and stamps the navigation time whether or not the cooldown
\* window of an earlier navigation is running, so the advance that follows a
\* completeStep made right after an accepted click still happens; and a click
\* made less than NAV_COOLDOWN_MS after the stamp of an advance is dropped.
C25_AdvanceStampsUnlimited ==
    [][/\ op'.name = "advance"
          => LET targets == openAfter(stepStates, findIndex(currentStepId)) IN
             IF targets # {}
             THEN /\ currentStepId' = stepAt(lowest(targets))
                  /\ stepChangeCalls' = <<currentStepId'>>
                  /\ lastNavAt' = now
             ELSE UNCHANGED <<currentStepId, lastNavAt>>
       /\ (/\ op.name = "advance"
           /\ stepChangeCalls # <<>>
           /\ op'.name \in {"click", "tick"})
          => /\ lastNavAt = now
             /\ op'.name = "click"
                  => /\ UNCHANGED <<currentStepId, lastNavAt>>
                     /\ stepChangeCalls' = <<>>
       /\ (op'.name = "click" /\ now - lastNavAt < NAV_COOLDOWN_MS)
          => /\ UNCHANGED <<currentStepId, lastNavAt>>
             /\ stepChangeCalls' = <<>>]_vars

\* the advance ran inside the cooldown window of a navigation of this session
\* and moved on from step-2 to step-3
C25_Witness ==
    /\ op.name = "advance"
    /\ op.arg = "step-2"
    /\ op.prevNavAt >= StartTime
    /\ now - op.prevNavAt < NAV_COOLDOWN_MS
    /\ currentStepId = "step-3"
    /\ stepChangeCalls = <<"step-3">>
    /\ lastNavAt = now
    /\ ~pendingAdvance

currentIsTheActiveStep ==
    /\ stepStates[currentStepId] # "locked"
    /\ activeIds = {currentStepId}

\* C28 (no re-locking under a fixed context): with a context that does not
\* change and without resetToStep, after any clicks, navigateTo on configured
\* ids, completeStep and deferred advances, the current step is never
\* `locked`, so exactly one step, the current one, is `active`; and a step
\* that is not `locked` is not `locked` after the next operation either.
\* Checked under SpecFixed.
C28_NoRelocking ==
    [][/\ currentIsTheActiveStep
       /\ currentIsTheActiveStep'
       /\ \A id \in StepIds :
              stepStates[id] # "locked" => stepStates'[id] # "locked"]_vars

\* no validator is true; the session completed its way to step-3 and went back
\* to step-1 by a click: step-3, unlocked on the way, is still not locked
C28_Witness ==
    /\ op.name = "click"
    /\ op.arg = "step-1"
    /\ \A id \in StepIds : validateResult[id] = "false"
    /\ manuallyCompleted = {"step-1", "step-2"}
    /\ currentStepId = "step-1"
    /\ stepStates["step-1"] = "active"
    /\ stepStates["step-2"] = "available"
    /\ stepStates["step-3"] = "next"

\* C29 (resetToStep settles on its target): when the update cycle that
\* follows resetToStep(s), s a configured step, has settled, currentStepId is
\* s, also when an earlier completeStep of the same turn left pendingAdvance
\* set.  The effect that then runs advances from s to the next step that is
\* not locked.
C29_ResetSettlesOnTarget ==
    [][(/\ op.name = "resetToStep"
        /\ op.arg \in StepIds
        /\ op'.name = "advance")
       => currentStepId' = op.arg]_vars

ControllerOps ==
    {"click", "navigateTo", "completeStep", "resetToStep", "updateContext", "advance"}

\* C30 (no bypass of the gating through completion): completeStep is only
\* ever called on, and so only ever adds to manuallyCompleted, a configured
\* step that is not `locked`; and no controller operation turns a `locked`
\* step into an available one (available, completed or active).  resetToStep
\* makes a locked step current and completeStep then adds it.
C30_NoBypassThroughCompletion ==
    [][/\ (op'.name = "completeStep" /\ currentStepId \in StepIds)
          => stepStates[currentStepId] # "locked"
       /\ op'.name \in ControllerOps
          => \A id \in StepIds :
                stepStates[id] = "locked"
                => stepStates'[id] \notin {"available", "completed", "active"}]_vars

====
